---- MODULE Spec2Model ----
(***************************************************************************)
(* Model of src-tauri/src/lib.rs: the entry point run(), which builds a   *)
(* tauri::Builder (default, setup hook, three plugins), generates the     *)
(* context, calls the blocking run and unwraps its result with expect.    *)
(*                                                                         *)
(* The entry point's own steps are translated from lib.rs.  The framework *)
(* behind the calls (tauri::Builder::run and what it does with the hook   *)
(* and the plugins) is not part of the repository; it is modelled as an   *)
(* environment, following the collaborator description of the design      *)
(* document (sections 4.1, 5 and 6), with every outcome left open that    *)
(* the document leaves open (which start-up phase fails, which            *)
(* application state the hook sees, how the application ends).            *)
(***************************************************************************)
EXTENDS Naturals, Sequences, FiniteSets

\* ---- bounds of the model ----
MaxAppState == 3    \* application states are 0..MaxAppState
MaxEvents == 3      \* events the run loop handles before it must shut down
MaxExitCode == 1    \* exit codes the application may request are 0..MaxExitCode
MaxRunCalls == 2    \* cap on the run-call counter

\* ---- program constants ----
PanicExitStatus == 101   \* exit status of a Rust process whose main thread panics

ExpectMsg == "error while running tauri application"

AppStates == 0..MaxAppState
ExitCodes == 0..MaxExitCode

\* The steps of run() in source order (lib.rs lines 3..10).
Steps == <<"default", "setup", "plugin_http", "plugin_geolocation",
           "plugin_shell", "generate_context", "run">>

ThreePlugins == <<"http", "geolocation", "shell">>

VARIABLES
    pc,          \* position of the entry point
    stepLog,     \* steps the entry point has executed, in order
    hookSet,     \* the builder holds the setup closure
    plugins,     \* plugins registered on the builder, in order
    context,     \* the generated context exists
    runCalls,    \* number of calls of Builder::run
    runResult,   \* what the run call returned: "none", "Ok", "Err"
    fw,          \* phase of the framework inside the run call
    initIdx,     \* number of registered plugins the framework has initialised
    app,         \* the application state (the App handed to the hook)
    events,      \* events handled by the run loop
    hookCalls,   \* invocations of the setup closure
    hookResult,  \* result of the last invocation: "none", "Ok", "Err"
    failCause,   \* origin of a start-up failure, "none" if there is none
    stderr,      \* diagnostic output of the process
    exitStatus   \* exit status of the process: <<>> while undetermined, else <<code>>

vars == <<pc, stepLog, hookSet, plugins, context, runCalls, runResult, fw,
          initIdx, app, events, hookCalls, hookResult, failCause, stderr,
          exitStatus>>

builderVars == <<hookSet, plugins, context>>
fwVars == <<fw, initIdx, app, events, hookCalls, hookResult, failCause>>
procVars == <<stderr, exitStatus>>

Init ==
    /\ pc = "default"
    /\ stepLog = <<>>
    /\ hookSet = FALSE
    /\ plugins = <<>>
    /\ context = FALSE
    /\ runCalls = 0
    /\ runResult = "none"
    /\ fw = "idle"
    /\ initIdx = 0
    /\ app = 0
    /\ events = 0
    /\ hookCalls = 0
    /\ hookResult = "none"
    /\ failCause = "none"
    /\ stderr = <<>>
    /\ exitStatus = <<>>

\* ---- the setup closure, lib.rs lines 4..6: |_app| { Ok(()) } ----
SetupHook_mutating(a) == [result |-> "Ok", app |-> (a + 1) % (MaxAppState + 1)]

SetupHook_failing(a) == [result |-> "Err", app |-> a]

SetupHook(a) == [result |-> "Ok", app |-> a]

\* ---- the entry point, one action per step of the call chain ----

\* A plain step of the chain: from position `at` to position `to`.
Step(at, to) ==
    /\ pc = at
    /\ pc' = to
    /\ stepLog' = Append(stepLog, at)

BuilderDefault_skipSetup ==
    /\ Step("default", "plugin_http")
    /\ hookSet' = FALSE
    /\ plugins' = <<>>
    /\ context' = FALSE
    /\ UNCHANGED <<runCalls, runResult, fwVars, procVars>>

\* tauri::Builder::default()
BuilderDefault ==
    /\ Step("default", "setup")
    /\ hookSet' = FALSE
    /\ plugins' = <<>>
    /\ context' = FALSE
    /\ UNCHANGED <<runCalls, runResult, fwVars, procVars>>

BuilderSetup_callsHook ==
    /\ Step("setup", "plugin_http")
    /\ hookSet' = TRUE
    /\ hookCalls' = hookCalls + 1
    /\ hookResult' = SetupHook(app).result
    /\ app' = SetupHook(app).app
    /\ UNCHANGED <<plugins, context, runCalls, runResult, fw, initIdx,
                   events, failCause, procVars>>

\* .setup(|_app| { Ok(()) }): the closure is stored, not called
BuilderSetup ==
    /\ Step("setup", "plugin_http")
    /\ hookSet' = TRUE
    /\ UNCHANGED <<plugins, context, runCalls, runResult, fwVars, procVars>>

\* .plugin(tauri_plugin_http::init())
PluginHttp ==
    /\ Step("plugin_http", "plugin_geolocation")
    /\ plugins' = Append(plugins, "http")
    /\ UNCHANGED <<hookSet, context, runCalls, runResult, fwVars, procVars>>

PluginGeolocation_forgotten ==
    /\ Step("plugin_geolocation", "plugin_shell")
    /\ UNCHANGED <<builderVars, runCalls, runResult, fwVars, procVars>>

\* .plugin(tauri_plugin_geolocation::init())
PluginGeolocation ==
    /\ Step("plugin_geolocation", "plugin_shell")
    /\ plugins' = Append(plugins, "geolocation")
    /\ UNCHANGED <<hookSet, context, runCalls, runResult, fwVars, procVars>>

\* .plugin(tauri_plugin_shell::init())
PluginShell ==
    /\ Step("plugin_shell", "generate_context")
    /\ plugins' = Append(plugins, "shell")
    /\ UNCHANGED <<hookSet, context, runCalls, runResult, fwVars, procVars>>

\* tauri::generate_context!(), evaluated as the argument of run
GenerateContext ==
    /\ Step("generate_context", "run")
    /\ context' = TRUE
    /\ UNCHANGED <<hookSet, plugins, runCalls, runResult, fwVars, procVars>>

RunCall_detached ==
    /\ runCalls < MaxRunCalls
    /\ Step("run", "expect")
    /\ runCalls' = runCalls + 1
    /\ runResult' = "Ok"
    /\ fw' = "build"
    /\ initIdx' = 0
    /\ UNCHANGED <<builderVars, app, events, hookCalls, hookResult,
                   failCause, procVars>>

\* .run(context): control passes to the framework until the call returns
RunCall ==
    /\ runCalls < MaxRunCalls
    /\ Step("run", "in_run")
    /\ runCalls' = runCalls + 1
    /\ runResult' = "none"
    /\ fw' = "build"
    /\ initIdx' = 0
    /\ UNCHANGED <<builderVars, app, events, hookCalls, hookResult,
                   failCause, procVars>>

Expect_swallow ==
    /\ pc = "expect"
    /\ pc' = "returned"
    /\ UNCHANGED <<stepLog, builderVars, runCalls, runResult, fwVars, procVars>>

Expect_retry ==
    /\ pc = "expect"
    /\ IF runResult = "Ok" THEN pc' = "returned" ELSE pc' = "run"
    /\ UNCHANGED <<stepLog, builderVars, runCalls, runResult, fwVars, procVars>>

Expect_loop ==
    /\ pc = "expect"
    /\ IF runResult = "Ok"
       THEN /\ pc' = "run"
            /\ UNCHANGED procVars
       ELSE /\ pc' = "panicked"
            /\ stderr' = Append(stderr, <<ExpectMsg, failCause>>)
            /\ exitStatus' = <<PanicExitStatus>>
    /\ UNCHANGED <<stepLog, builderVars, runCalls, runResult, fwVars>>

\* .expect("error while running tauri application"); and the end of run()
Expect ==
    /\ pc = "expect"
    /\ IF runResult = "Ok"
       THEN /\ pc' = "returned"
            /\ UNCHANGED procVars
       ELSE /\ pc' = "panicked"
            /\ stderr' = Append(stderr, <<ExpectMsg, failCause>>)
            /\ exitStatus' = <<PanicExitStatus>>
    /\ UNCHANGED <<stepLog, builderVars, runCalls, runResult, fwVars>>

\* ---- the framework inside the run call ----

\* The framework builds the application from the builder and the context.
FrameworkBuild ==
    /\ fw = "build"
    /\ \/ /\ \E a \in AppStates : app' = a
          /\ fw' = "plugins"
          /\ UNCHANGED failCause
       \/ /\ \E c \in {"framework", "context"} : failCause' = c
          /\ fw' = "failed"
          /\ UNCHANGED app
    /\ UNCHANGED <<pc, stepLog, builderVars, runCalls, runResult, initIdx,
                   events, hookCalls, hookResult, procVars>>

\* The framework initialises the registered plugins in registration order.
FrameworkInitPlugin ==
    /\ fw = "plugins"
    /\ IF initIdx < Len(plugins)
       THEN \/ /\ initIdx' = initIdx + 1
               /\ UNCHANGED <<fw, failCause>>
            \/ /\ failCause' = plugins[initIdx + 1]
               /\ fw' = "failed"
               /\ UNCHANGED initIdx
       ELSE /\ fw' = "setup"
            /\ UNCHANGED <<initIdx, failCause>>
    /\ UNCHANGED <<pc, stepLog, builderVars, runCalls, runResult, app,
                   events, hookCalls, hookResult, procVars>>

\* The framework invokes the installed setup hook, once.
FrameworkSetup ==
    /\ fw = "setup"
    /\ IF hookSet
       THEN /\ hookCalls' = hookCalls + 1
            /\ hookResult' = SetupHook(app).result
            /\ app' = SetupHook(app).app
            /\ IF SetupHook(app).result = "Ok"
               THEN fw' = "ready" /\ UNCHANGED failCause
               ELSE fw' = "failed" /\ failCause' = "setup"
       ELSE /\ fw' = "ready"
            /\ UNCHANGED <<hookCalls, hookResult, app, failCause>>
    /\ UNCHANGED <<pc, stepLog, builderVars, runCalls, runResult, initIdx,
                   events, procVars>>

\* The main window/context is shown: the application is running.
FrameworkShow ==
    /\ fw = "ready"
    /\ fw' = "running"
    /\ UNCHANGED <<pc, stepLog, builderVars, runCalls, runResult, initIdx,
                   app, events, hookCalls, hookResult, failCause, procVars>>

\* The run loop handles an event, which may change the application state.
FrameworkEvent ==
    /\ fw = "running"
    /\ events < MaxEvents
    /\ events' = events + 1
    /\ \E a \in AppStates : app' = a
    /\ UNCHANGED <<pc, stepLog, builderVars, runCalls, runResult, fw,
                   initIdx, hookCalls, hookResult, failCause, procVars>>

\* The application shuts down.
FrameworkShutdown ==
    /\ fw = "running"
    /\ fw' = "stopped"
    /\ UNCHANGED <<pc, stepLog, builderVars, runCalls, runResult, initIdx,
                   app, events, hookCalls, hookResult, failCause, procVars>>

\* The run call returns to the entry point: Ok at shutdown, Err on a
\* start-up failure.
FrameworkReturn ==
    /\ pc = "in_run"
    /\ fw \in {"stopped", "failed"}
    /\ runResult' = IF fw = "stopped" THEN "Ok" ELSE "Err"
    /\ pc' = "expect"
    /\ UNCHANGED <<stepLog, builderVars, runCalls, fwVars, procVars>>

\* After shutdown the framework may end the process itself, with the exit
\* code the application asked for, instead of returning.
FrameworkExit ==
    /\ pc = "in_run"
    /\ fw = "stopped"
    /\ \E c \in ExitCodes : exitStatus' = <<c>>
    /\ pc' = "exited"
    /\ UNCHANGED <<stepLog, builderVars, runCalls, runResult, fwVars, stderr>>

Next ==
    \/ BuilderDefault
    \/ BuilderSetup
    \/ PluginHttp
    \/ PluginGeolocation
    \/ PluginShell
    \/ GenerateContext
    \/ RunCall
    \/ Expect
    \/ FrameworkBuild
    \/ FrameworkInitPlugin
    \/ FrameworkSetup
    \/ FrameworkShow
    \/ FrameworkEvent
    \/ FrameworkShutdown
    \/ FrameworkReturn
    \/ FrameworkExit

Spec == Init /\ [][Next]_vars

\* ---- derived notions ----

\* The process has ended: run() returned, panicked, or the framework exited.
ProcessEnded == pc \in {"returned", "panicked", "exited"}

\* The lifecycle of section 4.1: not started -> running -> terminated.
Lifecycle ==
    IF ProcessEnded \/ fw = "stopped" THEN "terminated"
    ELSE IF fw = "running" THEN "running"
    ELSE "not_started"

\* ---- properties ----

Range(q) == {q[i] : i \in 1..Len(q)}

IsPrefix(p, q) == Len(p) <= Len(q) /\ \A i \in 1..Len(p) : p[i] = q[i]

\* C1: when the run call is made, and ever after, the builder holds exactly
\* the http, geolocation and shell registrations, each once, in that order;
\* so a running application always has the plugin set {http, geolocation,
\* shell}.
C1_ThreePluginsAtRun ==
    /\ (pc = "run" \/ runCalls > 0) => plugins = ThreePlugins
    /\ Lifecycle = "running" =>
          /\ Len(plugins) = 3
          /\ Range(plugins) = {"http", "geolocation", "shell"}

C1_Witness ==
    /\ Lifecycle = "running"
    /\ plugins = ThreePlugins

\* C2: when the run call has returned Err, the very next step is the panic
\* of expect, which emits the fixed message and fixes a non-zero exit
\* status; the panicked state has no successor, and run() never returns
\* normally after an Err.
C2_FailureIsFatal ==
    [][ /\ (pc = "expect" /\ runResult = "Err") =>
              /\ pc' = "panicked"
              /\ Len(stderr') = Len(stderr) + 1
              /\ stderr'[Len(stderr')][1] = ExpectMsg
              /\ exitStatus' # <<>>
              /\ exitStatus'[1] # 0
        /\ pc # "panicked"
        /\ runResult' = "Err" => pc' # "returned" ]_vars

C2_Witness ==
    /\ pc = "panicked"
    /\ stderr = << <<ExpectMsg, "context">> >>
    /\ exitStatus = <<PanicExitStatus>>

\* C3: every invocation of the setup hook returns Ok and changes nothing:
\* the application state, the builder and the process output are as before.
C3_HookIsNoOp ==
    [][ hookCalls' # hookCalls =>
          /\ hookResult' = "Ok"
          /\ app' = app
          /\ UNCHANGED <<builderVars, procVars, events, failCause>> ]_vars

C3_Witness ==
    /\ fw = "ready"
    /\ hookCalls = 1
    /\ hookResult = "Ok"
    /\ app = MaxAppState

\* C4: the lifecycle moves only not_started -> running, running ->
\* terminated and not_started -> terminated; terminated is absorbing.
C4_LifecycleTransitions ==
    [][ \/ Lifecycle' = Lifecycle
        \/ Lifecycle = "not_started" /\ Lifecycle' = "running"
        \/ Lifecycle = "running" /\ Lifecycle' = "terminated"
        \/ Lifecycle = "not_started" /\ Lifecycle' = "terminated" ]_vars

C4_Witness ==
    /\ Lifecycle = "terminated"
    /\ pc = "exited"
    /\ events > 0

\* C5: the run call is made at most once; after it has returned Err it is
\* not made again, the result stays Err and the application never runs.
C5_SingleShot ==
    /\ [](runCalls <= 1)
    /\ [][ runResult = "Err" =>
              /\ runCalls' = runCalls
              /\ runResult' = "Err"
              /\ Lifecycle' # "running" ]_vars

C5_Witness ==
    /\ pc = "panicked"
    /\ runResult = "Err"
    /\ runCalls = 1

\* C6: while the application is running the entry point is inside the run
\* call and takes no step; run() has returned normally only if the
\* application has shut down and the run call returned Ok.
C6_RunBlocks ==
    /\ [](Lifecycle = "running" => pc = "in_run")
    /\ [](pc = "returned" => fw = "stopped" /\ runResult = "Ok")
    /\ [][ fw = "running" => pc' = pc /\ stepLog' = stepLog ]_vars

C6_Witness ==
    /\ pc = "returned"
    /\ fw = "stopped"
    /\ events > 0

\* C7: the steps executed so far are always an initial part of the fixed
\* sequence default, setup, plugin_http, plugin_geolocation, plugin_shell,
\* generate_context, run; once the run call is made all seven have been
\* executed, and the hook, the three plugins and the context are in place.
C7_LinearSequence ==
    /\ IsPrefix(stepLog, Steps)
    /\ runCalls > 0 =>
          /\ stepLog = Steps
          /\ hookSet
          /\ plugins = ThreePlugins
          /\ context

C7_Witness ==
    /\ stepLog = Steps
    /\ fw = "build"

\* C8: the setup hook is invoked at most once, and each invocation happens
\* inside the run call, before the application is running or terminated.
C8_HookOnceBeforeRunning ==
    /\ [](hookCalls <= 1)
    /\ [][ hookCalls' # hookCalls =>
              /\ runCalls > 0
              /\ pc = "in_run"
              /\ Lifecycle = "not_started"
              /\ Lifecycle' = "not_started" ]_vars

C8_Witness ==
    /\ hookCalls = 1
    /\ Lifecycle = "running"

\* C9: a failure of the run call, and so the panic, always originates in
\* the framework, the generated context or one of the three plugins, never
\* in the setup hook; with no such error there is no failure and no panic.
C9_AbortOnlyFromFramework ==
    /\ failCause \in {"none", "framework", "context", "http", "geolocation",
                      "shell"}
    /\ failCause = "none" =>
          /\ runResult # "Err"
          /\ pc # "panicked"
          /\ fw # "failed"
    /\ hookResult # "Err"

C9_Witness ==
    /\ pc = "panicked"
    /\ failCause = "shell"
    /\ hookCalls = 0

====
